---- MODULE Spec2Model ----
(***************************************************************************)
(* Model of the tree-editing engine of react-mindmap-opml                  *)
(* (src/src/components/MindMap.tsx, first component variant, lines 1-546). *)
(*                                                                         *)
(* A Node is a record [id, content, children] with an optional `collapsed` *)
(* field, exactly as the TypeScript interface: nodes made by addChild and  *)
(* addSibling carry no `collapsed` field, the root starts with             *)
(* collapsed = FALSE.  Ids are strings in the code; here the root id '0'   *)
(* is 0 and the ids Math.random() yields are the other naturals.  Paths    *)
(* are sequences of zero-based child indices.                              *)
(*                                                                         *)
(* JavaScript values that are not Nodes are modelled by three tokens:      *)
(* Undefined (an out-of-range array read), Null (the "remove" result) and  *)
(* Throw (a TypeError raised by reading a property of undefined).          *)
(***************************************************************************)
EXTENDS Integers, Sequences, FiniteSets, TLC

\* ------------------------------------------------------------------ bounds
MaxNodes == 3          \* Spec: addChild/addSibling are offered below this size
MaxEdits == 1          \* Spec: number of updateContent/toggleCollapse calls
MaxTreeNodes == 6      \* TreeSpec: size of the trees Init draws
MaxLayoutNodes == 7    \* LayoutSpec: size of the trees Init draws
MaxBatch == 2          \* BatchSpec: handler calls between two renders

\* values of Math.random().toString(36).substr(2, 9): never the root's '0'
\* (a fraction prints as "0.xxx", so the result is "" or starts at the first
\* fractional digit and "0.0" is never printed), but with no check against
\* the ids already in the tree
NewIds == {1, 2}
\* ids offered to the id handlers in TreeSpec: the largest is in no tree
ArgIds == 0..MaxTreeNodes
\* texts typed into a textarea
Texts == {"x"}

VARIABLES root, focusNodeId, crashed, last, prior, edits, queue

vars == <<root, focusNodeId, crashed, last, prior, edits, queue>>

\* ------------------------------------------------------- JavaScript values
Undefined == [undefined |-> TRUE]
Null == [null |-> TRUE]
Throw == [throw |-> "TypeError"]

NoId == 0 - 1          \* focusNodeId === undefined / "no id" in the history

\* the literal { id, content, children: [] } of handleAddChild/handleAddSibling
NewNode(id, content) == [id |-> id, content |-> content, children |-> <<>>]

\* useState initial value
InitialRoot == [id |-> 0, content |-> "Root", children |-> <<>>, collapsed |-> FALSE]

\* truthiness of node.collapsed (an absent field reads undefined, falsy)
IsCollapsed(node) == "collapsed" \in DOMAIN node /\ node.collapsed

\* array[i] with a zero-based index: undefined when out of range
At(arr, i) == IF i >= 0 /\ i < Len(arr) THEN arr[i + 1] ELSE Undefined

\* array.slice(from, to) with zero-based, non-negative arguments
Slice(arr, from, to) ==
  LET hi == IF to < Len(arr) THEN to ELSE Len(arr)
  IN IF from >= hi THEN <<>> ELSE SubSeq(arr, from + 1, hi)

\* array.filter((_, i) => i !== index)
RemoveAt(arr, index) ==
  Slice(arr, 0, index) \o Slice(arr, index + 1, Len(arr))

\* array.filter(child => child !== null)
RECURSIVE DropNull(_)
DropNull(arr) ==
  IF arr = <<>> THEN <<>>
  ELSE IF Head(arr) = Null THEN DropNull(Tail(arr))
  ELSE <<Head(arr)>> \o DropNull(Tail(arr))

\* a callback of array.map threw
AnyThrow(arr) == \E i \in 1..Len(arr) : arr[i] = Throw

\* ------------------------------------------------------- id-addressed edits
\* faulty variant: a childless node is taken for the parent
RECURSIVE addChildToNode_Leaf(_, _, _)
addChildToNode_Leaf(node, parentId, newNode) ==
  IF node = Undefined THEN Throw
  ELSE IF node.id = parentId \/ node.children = <<>>
    THEN [node EXCEPT !.children = Append(@, newNode)]
    ELSE LET mapped == [i \in 1..Len(node.children) |->
                          addChildToNode_Leaf(node.children[i], parentId, newNode)]
         IN IF AnyThrow(mapped) THEN Throw
            ELSE [node EXCEPT !.children = mapped]

RECURSIVE addChildToNode(_, _, _)
addChildToNode(node, parentId, newNode) ==
  IF node = Undefined THEN Throw
  ELSE IF node.id = parentId
    THEN [node EXCEPT !.children = Append(@, newNode)]
    ELSE LET mapped == [i \in 1..Len(node.children) |->
                          addChildToNode(node.children[i], parentId, newNode)]
         IN IF AnyThrow(mapped) THEN Throw
            ELSE [node EXCEPT !.children = mapped]

\* faulty variant: the matching node is emptied instead of removed
RECURSIVE deleteNodeFromTree_Prune(_, _)
deleteNodeFromTree_Prune(node, id) ==
  IF node = Undefined THEN Throw
  ELSE IF node.id = id THEN [node EXCEPT !.children = <<>>]
  ELSE LET mapped == [i \in 1..Len(node.children) |->
                        deleteNodeFromTree_Prune(node.children[i], id)]
       IN IF AnyThrow(mapped) THEN Throw
          ELSE [node EXCEPT !.children = DropNull(mapped)]

RECURSIVE deleteNodeFromTree(_, _)
deleteNodeFromTree(node, id) ==
  IF node = Undefined THEN Throw
  ELSE IF node.id = id THEN Null
  ELSE LET mapped == [i \in 1..Len(node.children) |->
                        deleteNodeFromTree(node.children[i], id)]
       IN IF AnyThrow(mapped) THEN Throw
          ELSE [node EXCEPT !.children = DropNull(mapped)]

RECURSIVE updateNodeContent(_, _, _)
updateNodeContent(node, id, content) ==
  IF node = Undefined THEN Throw
  ELSE IF node.id = id THEN [node EXCEPT !.content = content]
  ELSE LET mapped == [i \in 1..Len(node.children) |->
                        updateNodeContent(node.children[i], id, content)]
       IN IF AnyThrow(mapped) THEN Throw
          ELSE [node EXCEPT !.children = mapped]

\* { ...node, collapsed: !node.collapsed }
FlipCollapsed(node) ==
  [id |-> node.id, content |-> node.content, children |-> node.children,
   collapsed |-> ~IsCollapsed(node)]

RECURSIVE toggleCollapse(_, _)
toggleCollapse(node, id) ==
  IF node = Undefined THEN Throw
  ELSE IF node.id = id THEN FlipCollapsed(node)
  ELSE LET mapped == [i \in 1..Len(node.children) |->
                        toggleCollapse(node.children[i], id)]
       IN IF AnyThrow(mapped) THEN Throw
          ELSE [node EXCEPT !.children = mapped]

\* ----------------------------------------------------- path-addressed edits
\* path.slice(0, -1) and path.slice(0, -2)
DropLast(path, k) == Slice(path, 0, Len(path) - k)

\* faulty variant: the new node is spliced in at index instead of index + 1
addSiblingUpdater_Before(node, path, newNode) ==
  IF node = Undefined THEN Throw
  ELSE IF path = <<>>
    THEN [node EXCEPT !.children = <<newNode>> \o @]
    ELSE LET index == path[Len(path)]
         IN [node EXCEPT !.children =
               Slice(@, 0, index) \o <<newNode>> \o Slice(@, index, Len(@))]

\* the updater handleAddSibling passes; index = path[path.length - 1] is
\* undefined for the empty path, index + 1 is then NaN, slice(0, NaN) is []
\* and slice(NaN) is the whole array
addSiblingUpdater(node, path, newNode) ==
  IF node = Undefined THEN Throw
  ELSE IF path = <<>>
    THEN [node EXCEPT !.children = <<newNode>> \o @]
    ELSE LET index == path[Len(path)]
         IN [node EXCEPT !.children =
               Slice(@, 0, index + 1) \o <<newNode>> \o Slice(@, index + 1, Len(@))]

\* faulty variant: the target becomes the first child of the previous sibling
indentUpdater_Prepend(node, index) ==
  IF node = Undefined THEN Throw
  ELSE LET targetNode == At(node.children, index)
           previousSibling == At(node.children, index - 1)
           newChildren == RemoveAt(node.children, index)
       IN IF previousSibling = Undefined THEN Throw
          ELSE LET newPreviousSibling ==
                     [previousSibling EXCEPT !.children = <<targetNode>> \o @]
               IN [node EXCEPT !.children =
                     [newChildren EXCEPT ![index] = newPreviousSibling]]

\* the updater handleIndent passes (index >= 1 there)
indentUpdater(node, index) ==
  IF node = Undefined THEN Throw
  ELSE LET targetNode == At(node.children, index)
           previousSibling == At(node.children, index - 1)
           newChildren == RemoveAt(node.children, index)
       IN IF previousSibling = Undefined THEN Throw
          ELSE LET newPreviousSibling ==
                     [previousSibling EXCEPT !.children = Append(@, targetNode)]
               IN [node EXCEPT !.children =
                     [newChildren EXCEPT ![index] = newPreviousSibling]]

\* faulty variant: the pair is inserted in the wrong order
FlatMapAt_Swapped(arr, parentIndex, a, b) ==
  Slice(arr, 0, parentIndex) \o <<b, a>> \o Slice(arr, parentIndex + 1, Len(arr))

\* node.children.flatMap((child, i) => i === parentIndex ? [a, b] : [child])
FlatMapAt(arr, parentIndex, a, b) ==
  Slice(arr, 0, parentIndex) \o <<a, b>> \o Slice(arr, parentIndex + 1, Len(arr))

\* faulty variant: the following siblings are dropped with the old parent's tail
outdentUpdater_LoseTail(node, index, parentIndex) ==
  IF node = Undefined THEN Throw
  ELSE LET parentNode == At(node.children, parentIndex)
       IN IF parentNode = Undefined THEN Throw
          ELSE LET targetNode == At(parentNode.children, index)
                   newParentNode ==
                     [parentNode EXCEPT !.children = Slice(@, 0, index)]
               IN IF targetNode = Undefined THEN Throw
                  ELSE [node EXCEPT !.children =
                          FlatMapAt(@, parentIndex, newParentNode, targetNode)]

\* faulty variant: the following siblings are put before the target's own children
outdentUpdater_TailFirst(node, index, parentIndex) ==
  IF node = Undefined THEN Throw
  ELSE LET parentNode == At(node.children, parentIndex)
       IN IF parentNode = Undefined THEN Throw
          ELSE LET targetNode == At(parentNode.children, index)
                   followingSiblings ==
                     Slice(parentNode.children, index + 1, Len(parentNode.children))
                   newParentNode ==
                     [parentNode EXCEPT !.children = Slice(@, 0, index)]
               IN IF targetNode = Undefined THEN Throw
                  ELSE LET newTargetNode ==
                             [targetNode EXCEPT !.children = followingSiblings \o @]
                       IN [node EXCEPT !.children =
                             FlatMapAt(@, parentIndex, newParentNode, newTargetNode)]

\* the updater handleOutdent passes
outdentUpdater(node, index, parentIndex) ==
  IF node = Undefined THEN Throw
  ELSE LET parentNode == At(node.children, parentIndex)
       IN IF parentNode = Undefined THEN Throw
          ELSE LET targetNode == At(parentNode.children, index)
                   followingSiblings ==
                     Slice(parentNode.children, index + 1, Len(parentNode.children))
                   newParentChildren == Slice(parentNode.children, 0, index)
                   newParentNode == [parentNode EXCEPT !.children = newParentChildren]
               IN IF targetNode = Undefined THEN Throw
                  ELSE LET newTargetNode ==
                             [targetNode EXCEPT !.children = @ \o followingSiblings]
                       IN [node EXCEPT !.children =
                             FlatMapAt(@, parentIndex, newParentNode, newTargetNode)]

\* updater(node, 0, path): upd names the closure and its captured variables
Updater(upd, node) ==
  CASE upd.kind = "addSibling" -> addSiblingUpdater(node, upd.path, upd.newNode)
    [] upd.kind = "indent" -> indentUpdater(node, upd.index)
    [] upd.kind = "outdent" -> outdentUpdater(node, upd.index, upd.parentIndex)

RECURSIVE updateNodeAtPath(_, _, _)
updateNodeAtPath(node, path, upd) ==
  IF path = <<>> THEN Updater(upd, node)
  ELSE IF node = Undefined THEN Throw
  ELSE LET index == Head(path)
           rest == Tail(path)
       IN IF index < 0 \/ index >= Len(node.children) THEN node
          ELSE LET updatedChild == updateNodeAtPath(node.children[index + 1], rest, upd)
               IN IF updatedChild = Throw THEN Throw
                  ELSE IF updatedChild = Null
                    THEN [node EXCEPT !.children = RemoveAt(@, index)]
                    ELSE [node EXCEPT !.children = [@ EXCEPT ![index + 1] = updatedChild]]

\* newRoot || prevRoot
OrPrev(newRoot, prevRoot) == IF newRoot = Null THEN prevRoot ELSE newRoot

\* the three state updaters handed to setRoot, as functions of prevRoot
AddSiblingTree(prevRoot, path, newNode) ==
  LET newRoot == updateNodeAtPath(prevRoot, DropLast(path, 1),
                   [kind |-> "addSibling", path |-> path, newNode |-> newNode])
  IN IF newRoot = Throw THEN Throw ELSE OrPrev(newRoot, prevRoot)

IndentTree(prevRoot, path) ==
  LET newRoot == updateNodeAtPath(prevRoot, DropLast(path, 1),
                   [kind |-> "indent", index |-> path[Len(path)]])
  IN IF newRoot = Throw THEN Throw ELSE OrPrev(newRoot, prevRoot)

OutdentTree(prevRoot, path) ==
  LET newRoot == updateNodeAtPath(prevRoot, DropLast(path, 2),
                   [kind |-> "outdent", index |-> path[Len(path)],
                    parentIndex |-> path[Len(path) - 1]])
  IN IF newRoot = Throw THEN Throw ELSE OrPrev(newRoot, prevRoot)

\* ------------------------------------------------------------------ render
\* the re-render after a state update walks the children of every node that
\* is not collapsed (calculateNodePositions and TextualMindMap alike) and
\* reads a property of each child: an undefined child raises a TypeError
RECURSIVE RenderThrows(_)
RenderThrows(node) ==
  /\ ~IsCollapsed(node)
  /\ \E i \in 1..Len(node.children) :
       \/ node.children[i] = Undefined
       \/ (node.children[i] # Undefined /\ RenderThrows(node.children[i]))

\* ----------------------------------------------------------------- helpers
\* number of slots of a tree (nodes and undefined entries)
RECURSIVE Size(_)
RECURSIVE SizeAll(_)
Size(node) == IF node = Undefined THEN 1 ELSE 1 + SizeAll(node.children)
SizeAll(arr) == IF arr = <<>> THEN 0 ELSE Size(Head(arr)) + SizeAll(Tail(arr))

\* the node a path resolves to, Undefined when it resolves to none
RECURSIVE NodeAt(_, _)
NodeAt(node, path) ==
  IF node = Undefined \/ path = <<>> THEN node
  ELSE NodeAt(At(node.children, Head(path)), Tail(path))

Resolves(tree, path) == NodeAt(tree, path) # Undefined

\* the paths that resolve to a node of the tree, the root's included
RECURSIVE ValidPaths(_)
ValidPaths(node) ==
  {<<>>} \cup UNION {{<<i - 1>> \o p : p \in ValidPaths(node.children[i])} :
                     i \in {j \in 1..Len(node.children) : node.children[j] # Undefined}}

\* the paths the outline view binds to its textareas (currentPath): every
\* child of the root, and below a node only while it is not collapsed
RECURSIVE OutlinePathsIn(_)
OutlinePathsIn(nodes) ==
  UNION {{<<i - 1>>} \cup
         (IF IsCollapsed(nodes[i]) THEN {}
          ELSE {<<i - 1>> \o p : p \in OutlinePathsIn(nodes[i].children)}) :
         i \in 1..Len(nodes)}

OutlinePaths(tree) == OutlinePathsIn(tree.children)

\* the ids of the boxes the diagram draws: the root, and below a node only
\* while it is not collapsed
DiagramIds(tree) ==
  {tree.id} \cup
  (IF IsCollapsed(tree) THEN {} ELSE {NodeAt(tree, p).id : p \in OutlinePaths(tree)})

\* stale paths: a path that resolved followed by an index at or past the end
\* of the children there, and such a path followed by one more index
PastEnd(tree) ==
  {Append(p, Len(NodeAt(tree, p).children) + d) : p \in ValidPaths(tree), d \in {0, 1}}

StalePaths(tree) == PastEnd(tree) \cup {Append(p, i) : p \in PastEnd(tree), i \in {0, 1}}

\* the paths offered to the path handlers in TreeSpec
PathArgs(tree) == ValidPaths(tree) \cup StalePaths(tree)

\* what a handler that called setRoot(updater) leaves behind: the state
\* update is applied and the component re-renders
Commit(result) ==
  /\ root' = IF result = Throw THEN root ELSE result
  /\ crashed' = IF result = Throw THEN TRUE ELSE RenderThrows(result)

\* the result of a state updater threw: React rethrows it while rendering
Threw(result) == result = Throw \/ RenderThrows(result)

\* history of the last handler call: its arguments, the tree it was called
\* on and whether a TypeError was raised (prior: the call before it, kept in
\* TreeSpec only)
Record(op, path, id, newId, threw) ==
  last' = [op |-> op, path |-> path, id |-> id, newId |-> newId,
           before |-> root, threw |-> threw]

\* ---------------------------------------------------------------- handlers
handleAddChild(parentId, newId) ==
  LET result == addChildToNode(root, parentId, NewNode(newId, "New Node"))
  IN /\ ~crashed
     /\ Commit(result)
     /\ Record("addChild", <<>>, parentId, newId, Threw(result))
     /\ UNCHANGED focusNodeId

\* deleteNodeFromTree runs in the event handler itself: a TypeError there is
\* reported but no state update is queued
handleDeleteNode(id) ==
  LET newRoot == deleteNodeFromTree(root, id)
  IN /\ ~crashed
     /\ IF newRoot = Null \/ newRoot = Throw
          THEN UNCHANGED <<root, crashed>>
          ELSE Commit(newRoot)
     /\ Record("deleteNode", <<>>, id, NoId, newRoot = Throw)
     /\ UNCHANGED focusNodeId

handleUpdateContent(id, content) ==
  LET result == updateNodeContent(root, id, content)
  IN /\ ~crashed
     /\ Commit(result)
     /\ Record("updateContent", <<>>, id, NoId, Threw(result))
     /\ UNCHANGED focusNodeId

handleToggleCollapse(id) ==
  LET result == toggleCollapse(root, id)
  IN /\ ~crashed
     /\ Commit(result)
     /\ Record("toggleCollapse", <<>>, id, NoId, Threw(result))
     /\ UNCHANGED focusNodeId

handleAddSibling(path, newId) ==
  LET result == AddSiblingTree(root, path, NewNode(newId, ""))
  IN /\ ~crashed
     /\ Commit(result)
     /\ focusNodeId' = newId
     /\ Record("addSibling", path, NoId, newId, Threw(result))

handleIndent(path) ==
  /\ ~crashed
  /\ IF path = <<>> \/ (path # <<>> /\ path[Len(path)] = 0)
       THEN /\ UNCHANGED <<root, crashed>>
            /\ Record("indent", path, NoId, NoId, FALSE)
       ELSE LET result == IndentTree(root, path)
            IN /\ Commit(result)
               /\ Record("indent", path, NoId, NoId, Threw(result))
  /\ UNCHANGED focusNodeId

handleOutdent(path) ==
  /\ ~crashed
  /\ IF Len(path) < 2
       THEN /\ UNCHANGED <<root, crashed>>
            /\ Record("outdent", path, NoId, NoId, FALSE)
       ELSE LET result == OutdentTree(root, path)
            IN /\ Commit(result)
               /\ Record("outdent", path, NoId, NoId, Threw(result))
  /\ UNCHANGED focusNodeId

\* ------------------------------------------------- Spec: an editing session
NoCall(tree) == [op |-> "init", path |-> <<>>, id |-> NoId, newId |-> NoId,
                 before |-> tree, threw |-> FALSE]

Init ==
  /\ root = InitialRoot
  /\ focusNodeId = NoId
  /\ crashed = FALSE
  /\ last = NoCall(InitialRoot)
  /\ prior = NoCall(InitialRoot)
  /\ edits = 0
  /\ queue = <<>>

\* the handlers are called by the two views with the ids and paths of the
\* nodes they show (MindMapNode onClick/onContextMenu, TextualMindMap
\* onChange/onKeyDown/onClick)
AddChild ==
  /\ Size(root) < MaxNodes
  /\ \E parentId \in DiagramIds(root), newId \in NewIds : handleAddChild(parentId, newId)
  /\ UNCHANGED <<prior, edits, queue>>

DeleteNode ==
  /\ \E id \in DiagramIds(root) : handleDeleteNode(id)
  /\ UNCHANGED <<prior, edits, queue>>

UpdateContent ==
  /\ edits < MaxEdits
  /\ edits' = edits + 1
  /\ UNCHANGED <<prior, queue>>
  /\ \E path \in OutlinePaths(root), content \in Texts :
       handleUpdateContent(NodeAt(root, path).id, content)

ToggleCollapse ==
  /\ edits < MaxEdits
  /\ edits' = edits + 1
  /\ UNCHANGED <<prior, queue>>
  /\ \E path \in OutlinePaths(root) \cup {<<>>} :
       /\ NodeAt(root, path).children # <<>>
       /\ handleToggleCollapse(NodeAt(root, path).id)

AddSibling ==
  /\ Size(root) < MaxNodes
  /\ \E path \in OutlinePaths(root), newId \in NewIds : handleAddSibling(path, newId)
  /\ UNCHANGED <<prior, edits, queue>>

Indent ==
  /\ \E path \in OutlinePaths(root) : handleIndent(path)
  /\ UNCHANGED <<prior, edits, queue>>

Outdent ==
  /\ \E path \in OutlinePaths(root) : handleOutdent(path)
  /\ UNCHANGED <<prior, edits, queue>>

Next ==
  \/ AddChild
  \/ DeleteNode
  \/ UpdateContent
  \/ ToggleCollapse
  \/ AddSibling
  \/ Indent
  \/ Outdent

Spec == Init /\ [][Next]_vars

\* ------------------------- TreeSpec: one path edit applied to any small tree
\* the trees addChild builds, ids numbered in pre-order from `first`
RECURSIVE TreesFrom(_, _)
RECURSIVE ForestsFrom(_, _)
TreesFrom(first, n) ==
  {[NewNode(first, "New Node") EXCEPT !.children = f] : f \in ForestsFrom(first + 1, n - 1)}
ForestsFrom(first, m) ==
  IF m = 0 THEN {<<>>}
  ELSE UNION {{<<t>> \o f : t \in TreesFrom(first, k), f \in ForestsFrom(first + k, m - k)} :
              k \in 1..m}

TreesOfSize(n) == {[InitialRoot EXCEPT !.children = f] : f \in ForestsFrom(1, n - 1)}

BuiltTrees == UNION {TreesOfSize(n) : n \in 1..MaxTreeNodes}

\* the trees addChild builds when Math.random() yields the same value on
\* every call: every node but the root carries that id
RECURSIVE WithId(_, _)
WithId(node, id) ==
  [node EXCEPT !.id = id,
               !.children = [i \in 1..Len(@) |-> WithId(@[i], id)]]

RepeatedIdTrees ==
  {[t EXCEPT !.children = [i \in 1..Len(@) |-> WithId(@[i], id)]] :
     t \in UNION {TreesOfSize(n) : n \in 3..MaxNodes}, id \in NewIds}

\* the built trees with at most one node toggled to collapsed, and the trees
\* with a repeated id
InitTrees ==
  BuiltTrees
    \cup {toggleCollapse(t, id) : t \in BuiltTrees, id \in 1..(MaxTreeNodes - 1)}
    \cup RepeatedIdTrees

TreeInit ==
  /\ root \in InitTrees
  /\ focusNodeId = NoId
  /\ crashed = FALSE
  /\ last = NoCall(root)
  /\ prior = NoCall(root)
  /\ edits = 0
  /\ queue = <<>>

\* one handler call with any argument, then (for the round trip) outdent
\* after indent
TreeAddChild ==
  /\ last.op = "init"
  /\ \E parentId \in ArgIds, newId \in NewIds : handleAddChild(parentId, newId)
  /\ prior' = last
  /\ UNCHANGED <<edits, queue>>

TreeDeleteNode ==
  /\ last.op = "init"
  /\ \E id \in ArgIds : handleDeleteNode(id)
  /\ prior' = last
  /\ UNCHANGED <<edits, queue>>

TreeUpdateContent ==
  /\ last.op = "init"
  /\ \E id \in ArgIds, content \in Texts : handleUpdateContent(id, content)
  /\ prior' = last
  /\ UNCHANGED <<edits, queue>>

TreeToggleCollapse ==
  /\ last.op = "init"
  /\ \E id \in ArgIds : handleToggleCollapse(id)
  /\ prior' = last
  /\ UNCHANGED <<edits, queue>>

TreeAddSibling ==
  /\ last.op = "init"
  /\ \E path \in PathArgs(root), newId \in NewIds : handleAddSibling(path, newId)
  /\ prior' = last
  /\ UNCHANGED <<edits, queue>>

TreeIndent ==
  /\ last.op = "init"
  /\ \E path \in PathArgs(root) : handleIndent(path)
  /\ prior' = last
  /\ UNCHANGED <<edits, queue>>

TreeOutdent ==
  /\ last.op \in {"init", "indent"}
  /\ \E path \in PathArgs(root) : handleOutdent(path)
  /\ prior' = last
  /\ UNCHANGED <<edits, queue>>

TreeNext ==
  \/ TreeAddChild
  \/ TreeDeleteNode
  \/ TreeUpdateContent
  \/ TreeToggleCollapse
  \/ TreeAddSibling
  \/ TreeIndent
  \/ TreeOutdent

TreeSpec == TreeInit /\ [][TreeNext]_vars

\* ================================================================== claims
\* the tree with the subtree at a resolving path replaced
RECURSIVE Put(_, _, _)
Put(tree, path, sub) ==
  IF path = <<>> THEN sub
  ELSE [tree EXCEPT !.children =
          [@ EXCEPT ![Head(path) + 1] = Put(@, Tail(path), sub)]]

\* the ids of a tree in depth-first pre-order (undefined entries carry none)
RECURSIVE IdSeq(_)
RECURSIVE IdSeqAll(_)
IdSeq(node) == IF node = Undefined THEN <<>> ELSE <<node.id>> \o IdSeqAll(node.children)
IdSeqAll(arr) == IF arr = <<>> THEN <<>> ELSE IdSeq(Head(arr)) \o IdSeqAll(Tail(arr))

Occurrences(seq, x) == Cardinality({i \in 1..Len(seq) : seq[i] = x})

SameNodes(t1, t2) ==
  LET s1 == IdSeq(t1)
      s2 == IdSeq(t2)
  IN /\ Len(s1) = Len(s2)
     /\ \A i \in 1..Len(s1) : Occurrences(s1, s1[i]) = Occurrences(s2, s1[i])

\* an undefined entry somewhere in a children list
RECURSIVE HasUndefined(_)
HasUndefined(node) ==
  \E i \in 1..Len(node.children) :
    \/ node.children[i] = Undefined
    \/ (node.children[i] # Undefined /\ HasUndefined(node.children[i]))

\* the parts of the path of the last call
LastIndex == last.path[Len(last.path)]
ParentPath == SubSeq(last.path, 1, Len(last.path) - 1)
ParentIndex == last.path[Len(last.path) - 1]
GrandparentPath == SubSeq(last.path, 1, Len(last.path) - 2)

\* C1: indent and outdent called with a path that resolves to no node of the
\* tree raise no error and leave the tree unchanged (so no children list
\* gains an undefined entry).
C1_TotalOnStalePath ==
  (last.op \in {"indent", "outdent"} /\ ~Resolves(last.before, last.path))
    => (~last.threw /\ root = last.before /\ ~HasUndefined(root))

\* C2: addSibling called with the root path or with a path that resolves to
\* no node inserts nothing: the tree is unchanged.
C2_AddSiblingInsertsNothing ==
  (last.op = "addSibling"
     /\ (last.path = <<>> \/ ~Resolves(last.before, last.path)))
    => root = last.before

\* the last call was outdent with a path of depth >= 2 that resolved
OutdentApplied ==
  /\ last.op = "outdent"
  /\ Len(last.path) >= 2
  /\ Resolves(last.before, last.path)

\* C3: outdent on a valid path of depth >= 2 makes the target B the child of
\* the grandparent G right after its parent P, P keeps its children before
\* B, the siblings that followed B become B's children after B's own, no
\* node is lost or duplicated and nothing else changes; with a path of depth
\* < 2 the tree is unchanged.
C3_Outdent ==
  /\ (last.op = "outdent" /\ Len(last.path) < 2) => root = last.before
  /\ OutdentApplied =>
       LET G == NodeAt(last.before, GrandparentPath)
           P == G.children[ParentIndex + 1]
           B == P.children[LastIndex + 1]
           newG == NodeAt(root, GrandparentPath)
       IN /\ Len(newG.children) = Len(G.children) + 1
          /\ newG.children[ParentIndex + 2] =
               [B EXCEPT !.children =
                  @ \o SubSeq(P.children, LastIndex + 2, Len(P.children))]
          /\ newG.children[ParentIndex + 1] =
               [P EXCEPT !.children = SubSeq(@, 1, LastIndex)]
          /\ \A k \in 1..Len(G.children) :
               /\ k < ParentIndex + 1 => newG.children[k] = G.children[k]
               /\ k > ParentIndex + 1 => newG.children[k + 1] = G.children[k]
          /\ [newG EXCEPT !.children = G.children] = G
          /\ root = Put(last.before, GrandparentPath, newG)
          /\ SameNodes(root, last.before)

\* C3 witness: an outdent of a node that has children of its own, a sibling
\* before it and siblings after it
C3_Witness ==
  /\ OutdentApplied
  /\ LastIndex >= 1
  /\ LET P == NodeAt(last.before, ParentPath)
     IN /\ Len(P.children) > LastIndex + 1
        /\ P.children[LastIndex + 1].children # <<>>

\* the last call was outdent of the middle child B of a parent with exactly
\* three children [A, B, C]
OutdentMiddleOfThree ==
  /\ OutdentApplied
  /\ LastIndex = 1
  /\ Len(NodeAt(last.before, ParentPath).children) = 3

\* C4 as stated: outdenting B under P = [A, B, C] leaves P with [A] and gives
\* the promoted node the children [C] followed by B's original children.
C4_Original ==
  OutdentMiddleOfThree =>
    LET P == NodeAt(last.before, ParentPath)
        newG == NodeAt(root, GrandparentPath)
    IN /\ newG.children[ParentIndex + 1].children = <<P.children[1]>>
       /\ newG.children[ParentIndex + 2].children =
            <<P.children[3]>> \o P.children[2].children

\* C4 amended: outdenting B under P = [A, B, C] leaves P with [A] and gives
\* the promoted node B's original children followed by C.
C4_TailAfterOwnChildren ==
  OutdentMiddleOfThree =>
    LET P == NodeAt(last.before, ParentPath)
        newG == NodeAt(root, GrandparentPath)
    IN /\ newG.children[ParentIndex + 1].children = <<P.children[1]>>
       /\ newG.children[ParentIndex + 2].children =
            P.children[2].children \o <<P.children[3]>>

\* C4 witness: B has a child of its own, so the two orders differ
C4_Witness ==
  /\ OutdentMiddleOfThree
  /\ NodeAt(last.before, last.path).children # <<>>

\* indent was called on `tree` with a resolving path whose last index is >= 1
IndentValid(tree, path) ==
  /\ Len(path) >= 1
  /\ path[Len(path)] >= 1
  /\ Resolves(tree, path)

\* the path of the indented node after the indent: q ++ [i - 1, k] with k the
\* number of children its preceding sibling had
PathAfterIndent(tree, path) ==
  LET q == SubSeq(path, 1, Len(path) - 1)
      i == path[Len(path)]
  IN q \o <<i - 1, Len(NodeAt(tree, Append(q, i - 1)).children)>>

\* the last two calls were a valid indent and then outdent of the same node
RoundTripDone ==
  /\ prior.op = "indent"
  /\ IndentValid(prior.before, prior.path)
  /\ last.op = "outdent"
  /\ last.path = PathAfterIndent(prior.before, prior.path)

\* C5: indent at a valid path with last index >= 1 followed by outdent at the
\* path the node then has yields the original tree.
C5_RoundTrip == RoundTripDone => root = prior.before

\* C5 witness: a round trip of a node with children, whose preceding sibling
\* has children and which has a following sibling
C5_Witness ==
  /\ RoundTripDone
  /\ LET Par == NodeAt(prior.before, SubSeq(prior.path, 1, Len(prior.path) - 1))
         i == prior.path[Len(prior.path)]
     IN /\ Len(Par.children) > i + 1
        /\ Par.children[i + 1].children # <<>>
        /\ Par.children[i].children # <<>>

\* the last call was indent with a valid path whose last index is >= 1
IndentApplied == last.op = "indent" /\ IndentValid(last.before, last.path)

\* C6: indent on a valid path with last index i >= 1 removes the target from
\* its parent's children and appends it, subtree intact, as the last child
\* of the sibling that was at i - 1, and changes nothing else; with the root
\* path or last index 0 the tree is unchanged.
C6_Indent ==
  /\ (last.op = "indent" /\ (last.path = <<>> \/ LastIndex = 0))
       => root = last.before
  /\ IndentApplied =>
       LET Par == NodeAt(last.before, ParentPath)
           newPar == NodeAt(root, ParentPath)
       IN /\ Len(newPar.children) = Len(Par.children) - 1
          /\ newPar.children[LastIndex] =
               [Par.children[LastIndex] EXCEPT
                  !.children = Append(@, Par.children[LastIndex + 1])]
          /\ \A k \in 1..Len(Par.children) :
               /\ k < LastIndex => newPar.children[k] = Par.children[k]
               /\ k > LastIndex + 1 => newPar.children[k - 1] = Par.children[k]
          /\ [newPar EXCEPT !.children = Par.children] = Par
          /\ root = Put(last.before, ParentPath, newPar)

\* C6 witness: an indent of a node with children into a sibling with children
C6_Witness ==
  /\ IndentApplied
  /\ LET Par == NodeAt(last.before, ParentPath)
     IN /\ Par.children[LastIndex + 1].children # <<>>
        /\ Par.children[LastIndex].children # <<>>
        /\ Len(Par.children) > LastIndex + 1

\* C7: in every tree of a session no two nodes carry the same id.
C7_UniqueIds ==
  LET ids == IdSeq(root)
  IN \A i, j \in 1..Len(ids) : ids[i] = ids[j] => i = j

\* the last call was an id-addressed edit with an id no node carries
AbsentIdCall(op) ==
  /\ last.op = op
  /\ \A i \in 1..Len(IdSeq(last.before)) : IdSeq(last.before)[i] # last.id

\* C8: addChild, deleteNode, updateContent and toggleCollapse called with an
\* id that no node of the tree carries leave the tree equal to the one they
\* were called on and raise no error.
C8_AbsentIdNoOp ==
  \A op \in {"addChild", "deleteNode", "updateContent", "toggleCollapse"} :
    AbsentIdCall(op) => (root = last.before /\ ~last.threw)

\* C8 witness: addChild with an absent id on a tree with inner nodes and a
\* collapsed node
C8_Witness ==
  /\ AbsentIdCall("addChild")
  /\ \E p \in ValidPaths(last.before) :
       Len(p) >= 2 /\ IsCollapsed(NodeAt(last.before, SubSeq(p, 1, 1)))

\* C9: deleteNode called with the root's id leaves the tree unchanged, and
\* the tree always has a root carrying the initial root id.
C9_RootNeverDeleted ==
  /\ root # Null
  /\ root.id = InitialRoot.id
  /\ (last.op = "deleteNode" /\ last.id = last.before.id) => root = last.before

\* C9 witness: deleteNode was called with the root's id on a root that has
\* children
C9_Witness ==
  /\ last.op = "deleteNode"
  /\ last.id = last.before.id
  /\ last.before.children # <<>>

\* the last call was addSibling with a path that resolved to a non-root node
AddSiblingApplied ==
  /\ last.op = "addSibling"
  /\ Len(last.path) >= 1
  /\ Resolves(last.before, last.path)

\* C10: addSibling on a path resolving to a non-root node at index i under P
\* gives P the children old[0..i] ++ [new] ++ old[i+1..], new having empty
\* content and no children, changes nothing else, and the id set for focus
\* is the id of the inserted node.
C10_AddSibling ==
  AddSiblingApplied =>
    LET Par == NodeAt(last.before, ParentPath)
        newPar == NodeAt(root, ParentPath)
    IN /\ Len(newPar.children) = Len(Par.children) + 1
       /\ SubSeq(newPar.children, 1, LastIndex + 1) =
            SubSeq(Par.children, 1, LastIndex + 1)
       /\ newPar.children[LastIndex + 2].content = ""
       /\ newPar.children[LastIndex + 2].children = <<>>
       /\ SubSeq(newPar.children, LastIndex + 3, Len(newPar.children)) =
            SubSeq(Par.children, LastIndex + 2, Len(Par.children))
       /\ [newPar EXCEPT !.children = Par.children] = Par
       /\ root = Put(last.before, ParentPath, newPar)
       /\ focusNodeId = newPar.children[LastIndex + 2].id

\* C10 witness: a sibling inserted between two existing siblings, below the
\* first level
C10_Witness ==
  /\ AddSiblingApplied
  /\ Len(last.path) >= 2
  /\ Len(NodeAt(last.before, ParentPath).children) > LastIndex + 1

\* the paths of the nodes of a tree that carry an id
PathsOfId(tree, id) == {p \in ValidPaths(tree) : NodeAt(tree, p).id = id}

\* C11: addChild with the id of a node p of the tree appends one new node,
\* with placeholder content and no children, at the end of p's children and
\* leaves every other node unchanged.
C11_AddChildFrame ==
  last.op = "addChild" =>
    \A p \in PathsOfId(last.before, last.id) :
      LET P == NodeAt(last.before, p)
          newP == [P EXCEPT !.children =
                     Append(@, [id |-> last.newId, content |-> "New Node",
                                children |-> <<>>])]
      IN /\ Resolves(root, p)
         /\ Len(NodeAt(root, p).children) = Len(P.children) + 1
         /\ root = Put(last.before, p, newP)

\* the tree without the node at a resolving, non-root path and its subtree
Without(tree, path) ==
  LET q == SubSeq(path, 1, Len(path) - 1)
      i == path[Len(path)]
      Par == NodeAt(tree, q)
  IN Put(tree, q, [Par EXCEPT !.children =
                     SubSeq(@, 1, i) \o SubSeq(@, i + 2, Len(@))])

\* C12: deleteNode with the id of a non-root node of the tree removes exactly
\* that node with all its descendants; every remaining node keeps its id,
\* content, collapsed flag, parent and order among its siblings.
C12_DeleteSubtree ==
  last.op = "deleteNode" =>
    \A p \in PathsOfId(last.before, last.id) \ {<<>>} :
      root = Without(last.before, p)

\* the outline lines of a tree from top to bottom: the depth-first pre-order
\* sequence of <<id, content, collapsed>>
RECURSIVE Outline(_), OutlineAll(_)
Outline(node) ==
  IF node = Undefined THEN <<node>>
  ELSE <<<<node.id, node.content, IsCollapsed(node)>>>>
         \o OutlineAll(node.children)
OutlineAll(arr) ==
  IF arr = <<>> THEN <<>> ELSE Outline(Head(arr)) \o OutlineAll(Tail(arr))

\* C18: indent and outdent on a valid path preserve the depth-first pre-order
\* sequence of node ids of the whole tree together with every node's content
\* and collapsed flag.
C18_PreorderKept ==
  (last.op \in {"indent", "outdent"} /\ Resolves(last.before, last.path))
    => Outline(root) = Outline(last.before)

\* an outdent that moves a node with children of its own and with following
\* siblings, in a tree with a collapsed node
C18_Witness ==
  /\ OutdentApplied
  /\ root # last.before
  /\ NodeAt(last.before, last.path).children # <<>>
  /\ Len(NodeAt(last.before, ParentPath).children) > LastIndex + 1
  /\ ~HasUndefined(root)
  /\ \E i \in 1..Len(Outline(root)) : Outline(root)[i][3]

\* ------------------------------------------------------------------ layout
nodeWidth == 100
nodeHeight == 50
nodeVerticalSpacing == 20
nodeHorizontalSpacing == 150

\* the branch that lays out children: !node.collapsed && children.length > 0
Expanded_IgnoreCollapsed(node) == node.children # <<>>

Expanded(node) == ~IsCollapsed(node) /\ node.children # <<>>

\* childYOffset += childHeight + nodeVerticalSpacing
NextChildYOffset_NoSpacing(childYOffset, childHeight) == childYOffset + childHeight

NextChildYOffset(childYOffset, childHeight) ==
  childYOffset + childHeight + nodeVerticalSpacing

\* calculateNodePositions returns [positionedNode, totalHeight]; PositionChildren
\* is its for loop over node.children: the positioned children and the
\* accumulated totalHeight (the last spacing still included)
RECURSIVE calculateNodePositions(_, _, _, _)
RECURSIVE PositionChildren(_, _, _, _)
PositionChildren(arr, depth, xOffset, childYOffset) ==
  IF arr = <<>> THEN [children |-> <<>>, totalHeight |-> 0]
  ELSE LET first == calculateNodePositions(Head(arr), depth, xOffset, childYOffset)
           rest == PositionChildren(Tail(arr), depth, xOffset,
                                    NextChildYOffset(childYOffset, first.totalHeight))
       IN [children |-> <<first.positionedNode>> \o rest.children,
           totalHeight |-> first.totalHeight + nodeVerticalSpacing + rest.totalHeight]

calculateNodePositions(node, depth, xOffset, yOffset) ==
  LET x == xOffset + depth * nodeHorizontalSpacing
  IN IF Expanded(node)
       THEN LET loop == PositionChildren(node.children, depth + 1, xOffset, yOffset)
                totalHeight == loop.totalHeight - nodeVerticalSpacing
                y == loop.children[1].y + (totalHeight - nodeHeight) \div 2
            IN [positionedNode |-> [node |-> node, x |-> x, y |-> y,
                                    width |-> nodeWidth, height |-> nodeHeight,
                                    children |-> loop.children],
                totalHeight |-> totalHeight]
       ELSE [positionedNode |-> [node |-> node, x |-> x, y |-> yOffset,
                                 width |-> nodeWidth, height |-> nodeHeight,
                                 children |-> <<>>],
             totalHeight |-> nodeHeight]

\* what the component computes on every render
positionedRoot == calculateNodePositions(root, 0, 20, 20).positionedNode

totalHeight == calculateNodePositions(root, 0, 20, 20).totalHeight

\* --------------------- LayoutSpec: the layout of any small tree, and of the
\* tree after one click on a collapse button
LayoutTrees ==
  LET built == UNION {TreesOfSize(n) : n \in 1..MaxLayoutNodes}
  IN built \cup {toggleCollapse(t, id) : t \in built, id \in 0..(MaxLayoutNodes - 1)}

LayoutInit ==
  /\ root \in LayoutTrees
  /\ focusNodeId = NoId
  /\ crashed = FALSE
  /\ last = NoCall(root)
  /\ prior = NoCall(root)
  /\ edits = 0
  /\ queue = <<>>

\* the button is drawn on the boxes of the nodes that have children
LayoutToggleCollapse ==
  /\ last.op = "init"
  /\ \E id \in DiagramIds(root) :
       /\ \E p \in PathsOfId(root, id) : NodeAt(root, p).children # <<>>
       /\ handleToggleCollapse(id)
  /\ prior' = last
  /\ UNCHANGED <<edits, queue>>

LayoutNext == LayoutToggleCollapse

LayoutSpec == LayoutInit /\ [][LayoutNext]_vars

\* the subtree height the layout computes for a node
Height(node) == calculateNodePositions(node, 0, 0, 0).totalHeight

\* the sum of Height(c) + nodeVerticalSpacing over the first n children
RECURSIVE Before(_, _)
Before(arr, n) ==
  IF n = 0 THEN 0 ELSE Before(arr, n - 1) + Height(arr[n]) + nodeVerticalSpacing

\* every expanded node with children below pn, pn included, is centered on
\* the span of its subtree, yOffset being the offset passed in for pn
RECURSIVE CenteredFrom(_, _)
CenteredFrom(pn, yOffset) ==
  /\ Expanded(pn.node) =>
       2 * pn.y + nodeHeight = 2 * yOffset + Height(pn.node)
  /\ \A i \in 1..Len(pn.children) :
       CenteredFrom(pn.children[i], yOffset + Before(pn.node.children, i - 1))

\* C13: in the layout of any tree every expanded node with at least one
\* child is vertically centered against the span of its subtree:
\* y + nodeHeight/2 = yOffset + H/2, also when its first child is itself an
\* expanded internal node.
C13_Centered == CenteredFrom(positionedRoot, 20)

\* every node below pn, pn included, has x = originX + depth * hSpacing, the
\* children of a node are given the accumulated offsets starting at the
\* node's own, and a node without positioned children sits at its offset
RECURSIVE PlacedFrom(_, _, _)
PlacedFrom(pn, depth, yOffset) ==
  /\ pn.x = 20 + depth * nodeHorizontalSpacing
  /\ pn.children = <<>> => pn.y = yOffset
  /\ Len(pn.children) \in {0, Len(pn.node.children)}
  /\ \A i \in 1..Len(pn.children) :
       PlacedFrom(pn.children[i], depth + 1,
                  yOffset + Before(pn.node.children, i - 1))

\* every node with exactly two children, both leaves: the children's y differ
\* by nodeHeight + vSpacing, their x are equal and hSpacing right of the
\* node's, whose y is the midpoint of theirs
RECURSIVE TwoLeavesFrom(_)
TwoLeavesFrom(pn) ==
  /\ (/\ Len(pn.children) = 2
      /\ \A i \in 1..2 : pn.children[i].node.children = <<>>)
       => /\ pn.children[2].y - pn.children[1].y = nodeHeight + nodeVerticalSpacing
          /\ pn.children[1].x = pn.children[2].x
          /\ pn.children[1].x = pn.x + nodeHorizontalSpacing
          /\ 2 * pn.y = pn.children[1].y + pn.children[2].y
  /\ \A i \in 1..Len(pn.children) : TwoLeavesFrom(pn.children[i])

\* C14: every positioned node's x is originX + depth * hSpacing and the
\* children of an expanded node are laid out at accumulating offsets (the
\* first at the parent's yOffset, each next one at the previous offset + the
\* previous child's subtree height + vSpacing); so with two leaf children
\* the children's y differ by nodeHeight + vSpacing, their x are equal and
\* exceed the parent's by hSpacing, and the parent's y is their midpoint.
C14_Offsets ==
  /\ PlacedFrom(positionedRoot, 0, 20)
  /\ TwoLeavesFrom(positionedRoot)

\* after a click on a collapse button the root has a first child with two
\* leaf children and a second child below that subtree
C14_Witness ==
  /\ last.op = "toggleCollapse"
  /\ Len(positionedRoot.children) >= 2
  /\ LET a == positionedRoot.children[1]
     IN /\ Len(a.children) = 2
        /\ \A i \in 1..2 : a.children[i].node.children = <<>>

\* the ids of the positioned nodes, and the ids of the nodes of a tree with
\* no collapsed proper ancestor, both in pre-order
RECURSIVE PositionedIds(_), PositionedIdsAll(_)
PositionedIds(pn) == <<pn.node.id>> \o PositionedIdsAll(pn.children)
PositionedIdsAll(arr) ==
  IF arr = <<>> THEN <<>> ELSE PositionedIds(Head(arr)) \o PositionedIdsAll(Tail(arr))

RECURSIVE VisibleIds(_), VisibleIdsAll(_)
VisibleIds(node) ==
  <<node.id>> \o (IF IsCollapsed(node) THEN <<>> ELSE VisibleIdsAll(node.children))
VisibleIdsAll(arr) ==
  IF arr = <<>> THEN <<>> ELSE VisibleIds(Head(arr)) \o VisibleIdsAll(Tail(arr))

\* every collapsed node below pn, pn included, has no positioned children,
\* sits at the offset passed in for it and counts nodeHeight in the height
\* of its parent, which is the sum of its children's heights and the
\* spacings between them
RECURSIVE CollapsedFrom(_, _)
CollapsedFrom(pn, yOffset) ==
  /\ IsCollapsed(pn.node) =>
       /\ pn.children = <<>>
       /\ pn.y = yOffset
       /\ Height(pn.node) = nodeHeight
  /\ (~IsCollapsed(pn.node) /\ pn.node.children # <<>>) =>
       /\ Len(pn.children) = Len(pn.node.children)
       /\ Height(pn.node) =
            Before(pn.node.children, Len(pn.node.children)) - nodeVerticalSpacing
  /\ \A i \in 1..Len(pn.children) :
       CollapsedFrom(pn.children[i], yOffset + Before(pn.node.children, i - 1))

\* C15: a collapsed node has an empty positioned-children list, its y is the
\* y offset passed in for it and it contributes exactly nodeHeight to its
\* parent's subtree height whatever it hides; the positioned nodes are
\* exactly the nodes with no collapsed proper ancestor.
C15_Collapsed ==
  /\ CollapsedFrom(positionedRoot, 20)
  /\ PositionedIds(positionedRoot) = VisibleIds(root)

\* the click collapsed the root's first child, which hides at least two
\* descendants and has a sibling below it
C15_Witness ==
  /\ last.op = "toggleCollapse"
  /\ ~IsCollapsed(root)
  /\ Len(root.children) >= 2
  /\ root.children[1].id = last.id
  /\ IsCollapsed(root.children[1])
  /\ Size(root.children[1]) >= 3

\* the boxes of the positioned nodes in pre-order
RECURSIVE Boxes(_), BoxesAll(_)
Boxes(pn) == <<[x |-> pn.x, y |-> pn.y]>> \o BoxesAll(pn.children)
BoxesAll(arr) ==
  IF arr = <<>> THEN <<>> ELSE Boxes(Head(arr)) \o BoxesAll(Tail(arr))

\* C17: no two distinct positioned nodes have overlapping boxes: two nodes at
\* the same depth (same x) have disjoint vertical intervals
\* [y, y + nodeHeight).
C17_NoOverlap ==
  LET b == Boxes(positionedRoot)
  IN \A i, j \in 1..Len(b) :
       (i < j /\ b[i].x = b[j].x)
         => (b[i].y + nodeHeight <= b[j].y \/ b[j].y + nodeHeight <= b[i].y)

\* ------------- BatchSpec: handlers called one after the other before React
\* renders again.  root is the state of the last render, the one the
\* closures of that render captured; queue holds the arguments of the
\* setRoot calls made since, which React applies in order at the next render.
Call(op, path, id, newId, content, value) ==
  [op |-> op, path |-> path, id |-> id, newId |-> newId, content |-> content,
   value |-> value]

\* what React computes for one queued setRoot argument: an updater function
\* is called with the state so far, a value replaces it
ApplyUpdate(update, prevRoot) ==
  CASE update.op = "addChild" ->
         addChildToNode(prevRoot, update.id, NewNode(update.newId, "New Node"))
    [] update.op = "deleteNode" -> update.value
    [] update.op = "updateContent" ->
         updateNodeContent(prevRoot, update.id, update.content)
    [] update.op = "toggleCollapse" -> toggleCollapse(prevRoot, update.id)
    [] update.op = "addSibling" ->
         AddSiblingTree(prevRoot, update.path, NewNode(update.newId, ""))
    [] update.op = "indent" -> IndentTree(prevRoot, update.path)
    [] update.op = "outdent" -> OutdentTree(prevRoot, update.path)

RECURSIVE ApplyQueue(_, _)
ApplyQueue(updates, prevRoot) ==
  IF updates = <<>> \/ prevRoot = Throw THEN prevRoot
  ELSE ApplyQueue(Tail(updates), ApplyUpdate(Head(updates), prevRoot))

\* setFocusNodeId(newNode.id) of the last handleAddSibling call
RECURSIVE FocusAfter(_, _)
FocusAfter(updates, focus) ==
  IF updates = <<>> THEN focus
  ELSE FocusAfter(Tail(updates),
                  IF Head(updates).op = "addSibling" THEN Head(updates).newId
                  ELSE focus)

setRoot(update) ==
  /\ queue' = Append(queue, update)
  /\ UNCHANGED <<root, focusNodeId, crashed, last, prior, edits>>

BatchInit ==
  /\ root \in UNION {TreesOfSize(n) : n \in 1..MaxNodes}
  /\ focusNodeId = NoId
  /\ crashed = FALSE
  /\ last = NoCall(root)
  /\ prior = NoCall(root)
  /\ edits = 0
  /\ queue = <<>>

\* a handler can be called while the component has not rendered again
Pending == last.op = "init" /\ Len(queue) < MaxBatch

BatchAddChild ==
  /\ Pending
  /\ \E parentId \in DiagramIds(root), newId \in NewIds :
       setRoot(Call("addChild", <<>>, parentId, newId, "", Null))

\* deleteNodeFromTree(root) is computed in the handler from the captured
\* root and the resulting tree, not an updater, is passed to setRoot
BatchDeleteNode ==
  /\ Pending
  /\ \E id \in DiagramIds(root) :
       LET newRoot == deleteNodeFromTree(root, id)
       IN /\ newRoot # Null
          /\ newRoot # Throw
          /\ setRoot(Call("deleteNode", <<>>, id, NoId, "", newRoot))

BatchUpdateContent ==
  /\ Pending
  /\ \E path \in OutlinePaths(root), content \in Texts :
       setRoot(Call("updateContent", <<>>, NodeAt(root, path).id, NoId, content, Null))

BatchToggleCollapse ==
  /\ Pending
  /\ \E id \in DiagramIds(root) :
       /\ \E p \in PathsOfId(root, id) : NodeAt(root, p).children # <<>>
       /\ setRoot(Call("toggleCollapse", <<>>, id, NoId, "", Null))

BatchAddSibling ==
  /\ Pending
  /\ \E path \in OutlinePaths(root), newId \in NewIds :
       setRoot(Call("addSibling", path, NoId, newId, "", Null))

BatchIndent ==
  /\ Pending
  /\ \E path \in OutlinePaths(root) :
       /\ path # <<>>
       /\ path[Len(path)] # 0
       /\ setRoot(Call("indent", path, NoId, NoId, "", Null))

BatchOutdent ==
  /\ Pending
  /\ \E path \in OutlinePaths(root) :
       /\ Len(path) >= 2
       /\ setRoot(Call("outdent", path, NoId, NoId, "", Null))

\* React renders: the queued updates are applied in order to the state
Render ==
  /\ ~crashed
  /\ queue # <<>>
  /\ Commit(ApplyQueue(queue, root))
  /\ focusNodeId' = FocusAfter(queue, focusNodeId)
  /\ last' = [op |-> "render", before |-> root, calls |-> queue]
  /\ queue' = <<>>
  /\ prior' = last
  /\ UNCHANGED edits

BatchNext ==
  \/ BatchAddChild
  \/ BatchDeleteNode
  \/ BatchUpdateContent
  \/ BatchToggleCollapse
  \/ BatchAddSibling
  \/ BatchIndent
  \/ BatchOutdent
  \/ Render

BatchSpec == BatchInit /\ [][BatchNext]_vars

\* the tree after the calls are made one at a time, each on the tree the
\* call before it left: what every handler does when it is given the latest
\* tree
RECURSIVE Serial(_, _)
Serial(calls, tree) ==
  IF calls = <<>> \/ tree = Throw THEN tree
  ELSE LET call == Head(calls)
           next == IF call.op = "deleteNode"
                     THEN OrPrev(deleteNodeFromTree(tree, call.id), tree)
                     ELSE ApplyUpdate(call, tree)
       IN Serial(Tail(calls), next)

\* C16: no edit is lost: when two edit handlers are invoked one after the
\* other before the component re-renders, the resulting tree reflects both
\* edits; no handler computes its new tree from the stale captured root and
\* overwrites the effect of the other handler's update.
C16_NoEditLost ==
  (last.op = "render" /\ Len(last.calls) = 2 /\ ~crashed)
    => root = Serial(last.calls, last.before)

====
